---- MODULE Spec2Model ----
(***************************************************************************)
(* A model of src/app.py: the cached, rate limited market data fetcher     *)
(* get_market_prices_coingecko, run by concurrent request threads, and the *)
(* parsing of the AI response in generate_analysis.                        *)
(*                                                                         *)
(* Time is a global clock `now`, in seconds, that moves forward through    *)
(* the instants of Instants.  time.time() reads it.                        *)
(***************************************************************************)
EXTENDS Integers, Sequences, FiniteSets, TLC

(***************************************************************************)
(* Bounds of the model.                                                    *)
(***************************************************************************)
\* Request threads (Flask serves each request on a thread of its own; the
\* startup pre-fetch thread of app.py:198-202 is one more caller).
NumThreads == 2
\* Calls of get_market_prices_coingecko begun in one behaviour.
MaxCalls == 3
\* The instants the clock takes: StartTime plus up to ShortTicks steps of
\* TickSeconds and up to LongTicks steps of ONE_MINUTE.
TickSeconds == 5
ShortTicks == 2
LongTicks == 1
\* app.py:127 sets MAX_CALLS_PER_MINUTE = 45.  The model checks the limiter
\* with a quota of 2, so that a full window is reached within MaxCalls calls.
MAX_CALLS_PER_MINUTE == 2

(***************************************************************************)
(* Program constants.                                                      *)
(***************************************************************************)
CACHE_DURATION == 10
ONE_MINUTE == 60

\* SUPPORTED_CRYPTOS, in the order of the dict literal: <<pair, coingecko id>>.
SUPPORTED_CRYPTOS ==
  << <<"BTC/USD", "bitcoin">>, <<"ETH/USD", "ethereum">>, <<"SOL/USD", "solana">>,
     <<"XRP/USD", "ripple">>, <<"ADA/USD", "cardano">>, <<"DOGE/USD", "dogecoin">>,
     <<"RVN/USD", "ravencoin">> >>

PairKeys == {SUPPORTED_CRYPTOS[i][1] : i \in DOMAIN SUPPORTED_CRYPTOS}
CoinIds == {SUPPORTED_CRYPTOS[i][2] : i \in DOMAIN SUPPORTED_CRYPTOS}

Threads == 1..NumThreads

\* The clock starts at an instant no smaller than CACHE_DURATION: time.time()
\* is seconds since 1970, so `current_time - 0 < CACHE_DURATION` never holds.
StartTime == CACHE_DURATION

Instants ==
  {StartTime + a * TickSeconds + b * ONE_MINUTE : a \in 0..ShortTicks, b \in 0..LongTicks}

\* The empty dict {}.
EmptyMap == [k \in {} |-> 0]

(***************************************************************************)
(* Upstream responses.  A JSON body is a mapping from coin id to what the  *)
(* body holds for it:                                                      *)
(*   absent    the id is not a key of the body                             *)
(*   quote     {"usd": usd, "usd_24h_change": chg}                         *)
(*   nochange  {"usd": usd}                                                *)
(*   nousd     an object without the key "usd"                             *)
(*   usdnull   {"usd": null}                                               *)
(*   null      the id maps to null, not to an object                       *)
(***************************************************************************)
Absent == [kind |-> "absent", usd |-> 0, chg |-> 0]
Quote(p, c) == [kind |-> "quote", usd |-> p, chg |-> c]
NoChange(p) == [kind |-> "nochange", usd |-> p, chg |-> 0]
NoUsd == [kind |-> "nousd", usd |-> 0, chg |-> 0]
UsdNull == [kind |-> "usdnull", usd |-> 0, chg |-> 0]
Null == [kind |-> "null", usd |-> 0, chg |-> 0]

FullBody ==
  [c \in CoinIds |->
     CASE c = "bitcoin" -> Quote(50000, 2)
       [] c = "ethereum" -> Quote(3000, -1)
       [] OTHER -> Quote(100, 0)]
PartialBody ==
  [c \in CoinIds |->
     CASE c = "bitcoin" -> Quote(50000, 2)
       [] c = "solana" -> NoUsd
       [] c = "ripple" -> NoChange(200)
       [] OTHER -> Absent]
\* A JSON object that names no coin; also what a thread holds before line 157.
NoBody == [c \in CoinIds |-> Absent]
\* A body with a null price and a coin that maps to null.
NullPriceBody ==
  [c \in CoinIds |->
     CASE c = "ethereum" -> UsdNull
       [] c = "dogecoin" -> Null
       [] OTHER -> Quote(100, 0)]

Bodies == {FullBody, PartialBody, NullPriceBody}

\* The exceptions of lines 155-157 that lines 189-195 catch.
FailureKinds == {"RequestException", "JSONDecodeError"}

ZeroQuote == [price |-> 0, change |-> 0, percent_change |-> 0]

\* Lines 165-170 for one pair: whether Python raises a TypeError there
\* ('usd' in None at line 165, None * change_24hr at line 170).
Raises(entry) == entry.kind \in {"null", "usdnull"}

\* Lines 165-183 for one pair whose iteration does not raise.
QuoteOf(entry) ==
  IF entry.kind \in {"quote", "nochange"}
    THEN [price |-> entry.usd,
          change |-> (entry.usd * entry.chg) \div 100,
          percent_change |-> entry.chg]
    ELSE ZeroQuote

\* Process with the else branch of lines 177-183 lost: a pair whose coin is
\* not priced in the body is left out of processed_data.
ProcessSkipping(body) ==
  IF \E i \in DOMAIN SUPPORTED_CRYPTOS : Raises(body[SUPPORTED_CRYPTOS[i][2]])
    THEN [raised |-> TRUE, value |-> EmptyMap]
    ELSE [raised |-> FALSE,
          value |-> [k \in {SUPPORTED_CRYPTOS[i][1] : i \in
                              {j \in DOMAIN SUPPORTED_CRYPTOS :
                                 body[SUPPORTED_CRYPTOS[j][2]].kind \in {"quote", "nochange"}}} |->
            LET i == CHOOSE j \in DOMAIN SUPPORTED_CRYPTOS : SUPPORTED_CRYPTOS[j][1] = k
            IN  QuoteOf(body[SUPPORTED_CRYPTOS[i][2]])]]

\* Lines 163-183: the loop over SUPPORTED_CRYPTOS.  A TypeError in any
\* iteration leaves the function before processed_data is stored.
Process(body) ==
  IF \E i \in DOMAIN SUPPORTED_CRYPTOS : Raises(body[SUPPORTED_CRYPTOS[i][2]])
    THEN [raised |-> TRUE, value |-> EmptyMap]
    ELSE [raised |-> FALSE,
          value |-> [k \in PairKeys |->
            LET i == CHOOSE j \in DOMAIN SUPPORTED_CRYPTOS : SUPPORTED_CRYPTOS[j][1] = k
            IN  QuoteOf(body[SUPPORTED_CRYPTOS[i][2]])]]

VARIABLES
  now,                  \* the clock
  api_call_timestamps,  \* the deque of line 126
  market_prices_cache,  \* the dict of line 121: [has, data, timestamp]
  pc,                   \* where each thread is in get_market_prices_coingecko
  current_time,         \* the local of each thread
  wake,                 \* when a sleeping thread's time.sleep ends
  data,                 \* the decoded response a thread holds (line 157)
  ret,                  \* processed_data, then what the thread's call returned
  exc,                  \* the exception that ended a thread's call, if any
  \* history, read by no action's guard
  ncalls,               \* calls begun
  callId,               \* the number of each thread's current call
  reqLog,               \* the instants of all upstream requests issued
  cacheSrc,             \* the calls that wrote the cache's data and timestamp
  hist,                 \* per thread, facts about its current call
  \* generate_analysis, lines 264-404
  current_price,        \* the price the request carries, in units of 0.00001
  ai_full_response,     \* response.text of line 321, a sequence of tokens
  analysis_data,        \* the payload returned at line 402
  ai_analysis_text,     \* the explanation returned at line 403
  stage,                \* how far the parsing is, and the path it took
  \* the request handlers /chat, /generate_analysis and /log_trade
  gemini_model,         \* line 54: TRUE when configure_gemini made the model
  trades,               \* the rows of the table of lines 33-41, by rowid
  sqlite_sequence,      \* the largest id AUTOINCREMENT has handed out
  request_no,           \* requests served
  response,             \* the response to the last request
  created               \* history: the /log_trade requests answered 201

fetchVars == <<now, api_call_timestamps, market_prices_cache, pc, current_time,
               wake, data, ret, exc, ncalls, callId, reqLog, cacheSrc, hist>>

parseVars == <<current_price, ai_full_response, analysis_data, ai_analysis_text,
               stage>>

handlerVars == <<gemini_model, trades, sqlite_sequence, request_no, response,
                 created>>

vars == <<fetchVars, parseVars, handlerVars>>

\* market_prices_cache.get('timestamp', 0) and .get('data', {})
CacheTimestamp(c) == IF "timestamp" \in c.has THEN c.timestamp ELSE 0
CacheData(c) == IF "data" \in c.has THEN c.data ELSE EmptyMap

\* Fresh with the comparison of line 146 turned round.
FreshInverted(c, t) == c.has # {} /\ t - CacheTimestamp(c) > CACHE_DURATION

\* Line 146: the cache is non-empty and its timestamp is recent at `t`.
Fresh(c, t) == c.has # {} /\ t - CacheTimestamp(c) < CACHE_DURATION

\* A thread that is inside get_market_prices_coingecko.
InCall(t) == pc[t] \notin {"idle", "done", "raised"}

\* History of a call.  While it runs: whether the cache was fresh when it
\* began (fresh) and whether it has changed api_call_timestamps (touched).
\* alone: no other call has overlapped it.  path: how it returned, "cache"
\* (line 147), "fetched" (line 187) or "fallback" (lines 192, 195).
NoHist == [fresh |-> FALSE, touched |-> FALSE, alone |-> TRUE, path |-> "none"]

\* The history of a call that has ended.
Ended(h, how) == [h EXCEPT !.fresh = FALSE, !.touched = FALSE, !.path = how]

\* The module level state of lines 121 and 126 at start-up.
FetchInit ==
  /\ now = StartTime
  /\ api_call_timestamps = <<>>
  /\ market_prices_cache = [has |-> {}, data |-> EmptyMap, timestamp |-> 0]
  /\ pc = [t \in Threads |-> "idle"]
  /\ current_time = [t \in Threads |-> 0]
  /\ wake = [t \in Threads |-> 0]
  /\ data = [t \in Threads |-> NoBody]
  /\ ret = [t \in Threads |-> EmptyMap]
  /\ exc = [t \in Threads |-> "none"]
  /\ ncalls = 0
  /\ callId = [t \in Threads |-> 0]
  /\ reqLog = <<>>
  /\ cacheSrc = [data |-> 0, timestamp |-> 0]
  /\ hist = [t \in Threads |-> NoHist]

\* No analysis has been requested.
ParseIdle ==
  /\ current_price = 0
  /\ ai_full_response = <<>>
  /\ analysis_data = EmptyMap
  /\ ai_analysis_text = <<>>
  /\ stage = "idle"

\* No request has been served; the model is not configured and the table
\* of init_db is empty.
HandlersIdle ==
  /\ gemini_model = FALSE
  /\ trades = <<>>
  /\ sqlite_sequence = 0
  /\ request_no = 0
  /\ response = [route |-> "none", status |-> 0, named |-> {}, valid |-> TRUE]
  /\ created = <<>>

Init == FetchInit /\ ParseIdle /\ HandlersIdle

\* Line 131: a thread enters get_market_prices_coingecko.
Call(t) ==
  /\ pc[t] \in {"idle", "done", "raised"}
  /\ ncalls < MaxCalls
  /\ current_time' = [current_time EXCEPT ![t] = now]
  /\ pc' = [pc EXCEPT ![t] = "evict_test"]
  /\ ret' = [ret EXCEPT ![t] = EmptyMap]
  /\ exc' = [exc EXCEPT ![t] = "none"]
  /\ ncalls' = ncalls + 1
  /\ callId' = [callId EXCEPT ![t] = ncalls + 1]
  /\ data' = [data EXCEPT ![t] = NoBody]
  /\ hist' = [u \in Threads |->
                IF u = t
                  THEN [NoHist EXCEPT !.fresh = Fresh(market_prices_cache, now),
                                      !.alone = \A x \in Threads \ {t} : ~InCall(x)]
                  ELSE IF InCall(u) THEN [hist[u] EXCEPT !.alone = FALSE] ELSE hist[u]]
  /\ UNCHANGED <<now, api_call_timestamps, market_prices_cache, wake,
                 reqLog, cacheSrc>>
  /\ UNCHANGED <<parseVars, handlerVars>>

\* Line 134: the test of the while loop.
EvictTest(t) ==
  /\ pc[t] = "evict_test"
  /\ pc' = [pc EXCEPT ![t] =
              IF /\ Len(api_call_timestamps) > 0
                 /\ api_call_timestamps[1] < current_time[t] - ONE_MINUTE
                THEN "evict_pop" ELSE "limit"]
  /\ UNCHANGED <<now, api_call_timestamps, market_prices_cache, current_time, wake,
                 data, ret, exc, ncalls, callId, reqLog, cacheSrc, hist>>
  /\ UNCHANGED <<parseVars, handlerVars>>

\* Line 135: popleft(), which raises IndexError on an empty deque.
EvictPop(t) ==
  /\ pc[t] = "evict_pop"
  /\ IF Len(api_call_timestamps) = 0
       THEN /\ pc' = [pc EXCEPT ![t] = "raised"]
            /\ exc' = [exc EXCEPT ![t] = "IndexError"]
            /\ hist' = [hist EXCEPT ![t] = Ended(@, "none")]
            /\ UNCHANGED api_call_timestamps
       ELSE /\ api_call_timestamps' = Tail(api_call_timestamps)
            /\ pc' = [pc EXCEPT ![t] = "evict_test"]
            /\ hist' = [hist EXCEPT ![t].touched = TRUE]
            /\ exc' = exc
  /\ UNCHANGED <<now, market_prices_cache, current_time, wake, data, ret,
                 ncalls, callId, reqLog, cacheSrc>>
  /\ UNCHANGED <<parseVars, handlerVars>>

\* Lines 138-142: at the quota, time_to_wait from the oldest timestamp;
\* time.sleep begins when it is positive.
Limit(t) ==
  /\ pc[t] = "limit"
  /\ LET time_to_wait == ONE_MINUTE - (current_time[t] - api_call_timestamps[1])
     IN  IF Len(api_call_timestamps) >= MAX_CALLS_PER_MINUTE /\ time_to_wait > 0
           THEN /\ pc' = [pc EXCEPT ![t] = "sleep"]
                /\ wake' = [wake EXCEPT ![t] = now + time_to_wait]
           ELSE /\ pc' = [pc EXCEPT ![t] = "cache_test"]
                /\ wake' = wake
  /\ UNCHANGED <<now, api_call_timestamps, market_prices_cache, current_time,
                 data, ret, exc, ncalls, callId, reqLog, cacheSrc, hist>>
  /\ UNCHANGED <<parseVars, handlerVars>>

\* Lines 142-143: time.sleep returns; current_time = time.time().
Wake(t) ==
  /\ pc[t] = "sleep"
  /\ now >= wake[t]
  /\ current_time' = [current_time EXCEPT ![t] = now]
  /\ wake' = [wake EXCEPT ![t] = 0]
  /\ pc' = [pc EXCEPT ![t] = "cache_test"]
  /\ UNCHANGED <<now, api_call_timestamps, market_prices_cache, data, ret, exc,
                 ncalls, callId, reqLog, cacheSrc, hist>>
  /\ UNCHANGED <<parseVars, handlerVars>>

\* Line 146: the condition of the cache check.
CacheTest(t) ==
  /\ pc[t] = "cache_test"
  /\ pc' = [pc EXCEPT ![t] =
              IF Fresh(market_prices_cache, current_time[t])
                THEN "cache_read" ELSE "request"]
  /\ UNCHANGED <<now, api_call_timestamps, market_prices_cache, current_time, wake,
                 data, ret, exc, ncalls, callId, reqLog, cacheSrc, hist>>
  /\ UNCHANGED <<parseVars, handlerVars>>

\* Line 147: return market_prices_cache['data'].
CacheRead(t) ==
  /\ pc[t] = "cache_read"
  /\ ret' = [ret EXCEPT ![t] = market_prices_cache.data]
  /\ pc' = [pc EXCEPT ![t] = "done"]
  /\ hist' = [hist EXCEPT ![t] = Ended(@, "cache")]
  /\ UNCHANGED <<now, api_call_timestamps, market_prices_cache, current_time, wake,
                 data, exc, ncalls, callId, reqLog, cacheSrc>>
  /\ UNCHANGED <<parseVars, handlerVars>>

\* Lines 155-157 raise RequestException or JSONDecodeError; lines 189-195
\* return market_prices_cache.get('data', {}).
RequestFails(t) ==
  /\ pc[t] = "request"
  /\ \E kind \in FailureKinds : TRUE
  /\ reqLog' = Append(reqLog, now)
  /\ ret' = [ret EXCEPT ![t] = CacheData(market_prices_cache)]
  /\ pc' = [pc EXCEPT ![t] = "done"]
  /\ hist' = [hist EXCEPT ![t] = Ended(@, "fallback")]
  /\ UNCHANGED <<now, api_call_timestamps, market_prices_cache, current_time, wake,
                 data, exc, ncalls, callId, cacheSrc>>
  /\ UNCHANGED <<parseVars, handlerVars>>

\* Lines 155-183: the request succeeds and the body decodes, the timestamp
\* is appended (line 160), then the body is processed (lines 163-183).
RequestOk(t) ==
  /\ pc[t] = "request"
  /\ \E body \in Bodies :
       LET processed_data == Process(body)
       IN  /\ data' = [data EXCEPT ![t] = body]
           /\ IF processed_data.raised
                THEN /\ pc' = [pc EXCEPT ![t] = "raised"]
                     /\ exc' = [exc EXCEPT ![t] = "TypeError"]
                     /\ hist' = [hist EXCEPT ![t] = Ended(@, "none")]
                     /\ ret' = ret
                ELSE /\ pc' = [pc EXCEPT ![t] = "store_data"]
                     /\ ret' = [ret EXCEPT ![t] = processed_data.value]
                     /\ hist' = [hist EXCEPT ![t].touched = TRUE]
                     /\ exc' = exc
  /\ reqLog' = Append(reqLog, now)
  /\ api_call_timestamps' = Append(api_call_timestamps, now)
  /\ UNCHANGED <<now, market_prices_cache, current_time, wake,
                 ncalls, callId, cacheSrc>>
  /\ UNCHANGED <<parseVars, handlerVars>>

\* Line 185: market_prices_cache['data'] = processed_data.
StoreData(t) ==
  /\ pc[t] = "store_data"
  /\ market_prices_cache' =
       [market_prices_cache EXCEPT !.has = @ \cup {"data"}, !.data = ret[t]]
  /\ cacheSrc' = [cacheSrc EXCEPT !.data = callId[t]]
  /\ pc' = [pc EXCEPT ![t] = "store_ts"]
  /\ data' = [data EXCEPT ![t] = NoBody]
  /\ UNCHANGED <<now, api_call_timestamps, current_time, wake, ret, exc,
                 ncalls, callId, reqLog, hist>>
  /\ UNCHANGED <<parseVars, handlerVars>>

\* Lines 186-187: market_prices_cache['timestamp'] = current_time; return.
StoreTimestamp(t) ==
  /\ pc[t] = "store_ts"
  /\ market_prices_cache' =
       [market_prices_cache EXCEPT !.has = @ \cup {"timestamp"},
                                   !.timestamp = current_time[t]]
  /\ cacheSrc' = [cacheSrc EXCEPT !.timestamp = callId[t]]
  /\ pc' = [pc EXCEPT ![t] = "done"]
  /\ hist' = [hist EXCEPT ![t] = Ended(@, "fetched")]
  /\ UNCHANGED <<now, api_call_timestamps, current_time, wake, data, ret, exc,
                 ncalls, callId, reqLog>>
  /\ UNCHANGED <<parseVars, handlerVars>>

\* Time passes.  reqLog keeps the requests of the last ONE_MINUTE: a window
\* that ends at a later request holds no older one.
Tick ==
  /\ \E i \in Instants : i > now /\ now' = i
  /\ reqLog' = SelectSeq(reqLog, LAMBDA r : r > now' - ONE_MINUTE)
  /\ UNCHANGED <<api_call_timestamps, market_prices_cache, pc, current_time, wake,
                 data, ret, exc, ncalls, callId, cacheSrc, hist>>
  /\ UNCHANGED <<parseVars, handlerVars>>

Next ==
  \/ \E t \in Threads : Call(t)
  \/ \E t \in Threads : EvictTest(t)
  \/ \E t \in Threads : EvictPop(t)
  \/ \E t \in Threads : Limit(t)
  \/ \E t \in Threads : Wake(t)
  \/ \E t \in Threads : CacheTest(t)
  \/ \E t \in Threads : CacheRead(t)
  \/ \E t \in Threads : RequestFails(t)
  \/ \E t \in Threads : RequestOk(t)
  \/ \E t \in Threads : StoreData(t)
  \/ \E t \in Threads : StoreTimestamp(t)
  \/ Tick

Spec == Init /\ [][Next]_vars

(***************************************************************************)
(* The claims about get_market_prices_coingecko.                           *)
(***************************************************************************)

\* The upstream requests issued in the ONE_MINUTE that ends at request i.
RequestsInWindow(i) ==
  {j \in DOMAIN reqLog : reqLog[i] - ONE_MINUTE < reqLog[j] /\ reqLog[j] <= reqLog[i]}

\* C1: in every rolling window of ONE_MINUTE at most MAX_CALLS_PER_MINUTE
\* upstream requests are issued, whether they succeed or fail.
C1_RateLimit ==
  \A i \in DOMAIN reqLog : Cardinality(RequestsInWindow(i)) <= MAX_CALLS_PER_MINUTE

\* C2: a call that begins while the cache is fresh leaves api_call_timestamps
\* as it is, does not sleep in the limiter and issues no upstream request.
C2_CacheHitSkipsLimiter ==
  \A t \in Threads :
    (InCall(t) /\ hist[t].fresh) =>
      /\ ~hist[t].touched
      /\ pc[t] \notin {"sleep", "request", "store_data", "store_ts"}

\* A call that has returned and that issued an upstream request.
Requested(t) == hist[t].path \in {"fetched", "fallback"}

\* Call u returned before call t began, both have returned, and the
\* current_time of t is less than CACHE_DURATION after that of u.
CloseCalls(u, t) ==
  /\ u # t
  /\ pc[u] = "done" /\ pc[t] = "done"
  /\ callId[u] < callId[t]
  /\ hist[t].alone
  /\ current_time[t] - current_time[u] < CACHE_DURATION

\* C3 as stated: two calls less than CACHE_DURATION apart issue at most one
\* upstream request between them and return the same data, whatever the
\* first call's request ended with.
C3_TwoCallsOneRequest ==
  \A u, t \in Threads :
    CloseCalls(u, t) =>
      /\ ~(Requested(u) /\ Requested(t))
      /\ ret[t] = ret[u]

\* C3 as amended: when neither call overlaps another call and the first
\* call's upstream request succeeded, the second call issues no upstream
\* request and returns the data the first call returned.
C3_AfterSuccessfulFetch ==
  \A u, t \in Threads :
    (CloseCalls(u, t) /\ hist[u].alone /\ hist[u].path = "fetched") =>
      /\ hist[t].path = "cache"
      /\ ret[t] = ret[u]

C3_Witness ==
  \E u, t \in Threads :
    /\ CloseCalls(u, t) /\ hist[u].alone /\ hist[u].path = "fetched"
    /\ hist[t].path = "cache"
    /\ current_time[t] > current_time[u]
    /\ ret[t] = ret[u] /\ ret[t] # EmptyMap

\* The cache pairs the data of one call with the timestamp of another call,
\* or with no timestamp.
Torn ==
  /\ "data" \in market_prices_cache.has
  /\ \/ "timestamp" \notin market_prices_cache.has
     \/ cacheSrc.data # cacheSrc.timestamp

\* C4: a thread that is about to read the cache (the check of line 146, the
\* read of line 147, the read of lines 192 and 195) finds an entry whose
\* data and timestamp one call wrote.
C4_NoTornEntry ==
  \A t \in Threads : pc[t] \in {"cache_test", "cache_read", "request"} => ~Torn

\* A body in which some coin maps to null or has a null price.
Malformed(body) == \E c \in CoinIds : body[c].kind \in {"null", "usdnull"}

\* C5: a call whose upstream request fails or returns a malformed payload
\* does not raise; it returns the cached data, or {} when there is none.
C5_FailureIsAbsorbed ==
  \A t \in Threads :
    /\ Malformed(data[t]) => exc[t] = "none"
    /\ (pc[t] = "done" /\ hist[t].path = "fallback" /\ hist[t].alone
          /\ \A u \in Threads \ {t} : ~InCall(u) /\ callId[u] < callId[t])
         => ret[t] = CacheData(market_prices_cache)

\* The body has no numeric price for the coin.
LacksPrice(entry) == entry.kind \notin {"quote", "nochange"}

TypeOK ==
  /\ now \in Instants
  /\ ncalls \in 0..MaxCalls
  /\ \A t \in Threads : exc[t] \in {"none", "IndexError", "TypeError"}

(***************************************************************************)
(* The parsing of the AI response in generate_analysis, lines 323-404.     *)
(*                                                                         *)
(* A text is a sequence of tokens: "txt" is a run of prose, "nl" a line    *)
(* break (the only white space), "hdr" the heading "**PART 2: Detailed     *)
(* Textual Analysis**", "tick" three backquotes, "json" the word json, and *)
(* the obj tokens are brace delimited texts "{...}".  The notes and the    *)
(* placeholders that the code puts into the explanation are tokens too.    *)
(***************************************************************************)
\* Segments in a generated response.
MaxSegs == 4

Open == <<"tick", "json", "nl">>
Close == <<"nl", "tick">>

\* Brace delimited texts: an object with the eight keys, one with the eight
\* keys and unusable values, one without "sl" and "rr_ratio", and one that
\* is not JSON.
ObjTokens == {"objFull", "objOdd", "objPartial", "objBad"}

\* What a response is put together from: prose, line breaks, the heading,
\* fences with nothing between them, an object outside a fence, and fenced
\* blocks.
Segments ==
  {<<"txt">>, <<"nl">>, <<"hdr">>, Open, Close, <<"objFull">>}
    \cup {Open \o <<o>> \o Close : o \in ObjTokens}

RECURSIVE TextsOf(_)
TextsOf(n) ==
  IF n = 0 THEN {<<>>}
  ELSE LET S == TextsOf(n - 1) IN S \cup {s \o g : s \in S, g \in Segments}

Texts == TextsOf(MaxSegs)

\* Prices of the request, in units of 0.00001: 0, 0.02, 0.05, 1.23457 and
\* 100.
Prices == {0, 2000, 5000, 123457, 10000000}

\* Line 351.
required_keys ==
  {"signal", "confidence", "entry", "tp1", "tp2", "tp3", "sl", "rr_ratio"}

\* JSON values: numbers in units of 0.00001, and strings.
Num(n) == [kind |-> "num", num |-> n, str |-> ""]
Str(x) == [kind |-> "str", num |-> 0, str |-> x]

\* What json.loads makes of the decodable obj tokens.
Decoded(o) ==
  CASE o = "objFull" ->
         [k \in required_keys |->
            CASE k = "signal" -> Str("BUY")
              [] k = "confidence" -> Str("85%")
              [] k = "entry" -> Num(10012345)
              [] k = "tp1" -> Num(10150000)
              [] k = "tp2" -> Num(10250000)
              [] k = "tp3" -> Num(10350000)
              [] k = "sl" -> Num(9900000)
              [] OTHER -> Str("1:2.0")]
    [] o = "objOdd" ->
         [k \in required_keys |->
            CASE k = "signal" -> Str("SELL")
              [] k = "confidence" -> Str("50%")
              [] k = "entry" -> Num(-100000)
              [] k = "tp1" -> Str("n/a")
              [] k = "tp2" -> Num(200000)
              [] k = "tp3" -> Num(300000)
              [] k = "sl" -> Num(400000)
              [] OTHER -> Str("1:0.5")]
    [] OTHER ->
         [k \in required_keys \ {"sl", "rr_ratio"} |->
            CASE k = "signal" -> Str("BUY")
              [] k = "confidence" -> Str("85%")
              [] k = "entry" -> Num(10000000)
              [] k = "tp1" -> Num(10100000)
              [] k = "tp2" -> Num(10200000)
              [] OTHER -> Num(10300000)]

\* Line 337, json.loads(json_str): one decodable obj token is an object,
\* anything else raises JSONDecodeError.
Decode(json_str) ==
  IF Len(json_str) = 1 /\ json_str[1] \in ObjTokens \ {"objBad"}
    THEN [ok |-> TRUE, value |-> Decoded(json_str[1])]
    ELSE [ok |-> FALSE, value |-> EmptyMap]

\* str.strip(), lines 332, 334, 347 and 384.
RECURSIVE LStrip(_)
LStrip(s) == IF s # <<>> /\ Head(s) = "nl" THEN LStrip(Tail(s)) ELSE s

RECURSIVE RStrip(_)
RStrip(s) ==
  IF s # <<>> /\ s[Len(s)] = "nl" THEN RStrip(SubSeq(s, 1, Len(s) - 1)) ELSE s

Strip(s) == RStrip(LStrip(s))

\* Line 347, re.sub of '^\s*(heading)\s*' with MULTILINE: at the start of
\* a line (bol), white space, the heading and the white space after it are
\* removed; the search goes on where the match ended.
RECURSIVE SubHeader(_, _)
SubHeader(s, bol) ==
  IF s = <<>> THEN <<>>
  ELSE LET k == LStrip(s) IN
       IF bol /\ k # <<>> /\ Head(k) = "hdr"
         THEN LET after == LStrip(Tail(k))
              IN  SubHeader(after, Len(after) < Len(Tail(k)))
         ELSE <<Head(s)>> \o SubHeader(Tail(s), Head(s) = "nl")

\* Line 328, the pattern (.*?)```json\n({.*?})\n```(.*): the block may
\* begin at i, where "```json\n" is followed by "{", and end at j, where
\* "}" is followed by "\n```".
OpensAt(s, i) ==
  /\ i + 3 <= Len(s)
  /\ s[i] = Open[1] /\ s[i + 1] = Open[2] /\ s[i + 2] = Open[3]
  /\ s[i + 3] \in ObjTokens

ClosesAt(s, j) ==
  /\ j + 2 <= Len(s)
  /\ s[j] \in ObjTokens
  /\ s[j + 1] = Close[1] /\ s[j + 2] = Close[2]

Min(S) == CHOOSE x \in S : \A y \in S : x <= y

\* Line 329, re.search: the leftmost begin that has an end after it, and
\* the nearest such end; groups 1, 2 and 3 of the match.
json_match(s) ==
  LET starts == {i \in 1..Len(s) :
                   OpensAt(s, i) /\ \E j \in (i + 3)..Len(s) : ClosesAt(s, j)}
  IN  IF starts = {}
        THEN [found |-> FALSE, pre |-> <<>>, body |-> <<>>, post |-> <<>>]
        ELSE LET i == Min(starts)
                 j == Min({e \in (i + 3)..Len(s) : ClosesAt(s, e)})
             IN  [found |-> TRUE,
                  pre |-> SubSeq(s, 1, i - 1),
                  body |-> SubSeq(s, i + 3, j),
                  post |-> SubSeq(s, j + 3, Len(s))]

\* The explanation made of the whole response, block included.
AnalysisTextWhole(m) == m.pre \o Open \o m.body \o Close \o m.post

\* Lines 340-347: the text after the block, else the text before it, else
\* a placeholder; then the headings are removed.
AnalysisText(m) ==
  LET pre_json_text == Strip(m.pre)
      post_json_text == Strip(m.post)
      text == IF post_json_text # <<>> THEN post_json_text
              ELSE IF pre_json_text # <<>> THEN pre_json_text
              ELSE <<"phNoText">>
  IN  Strip(SubHeader(text, TRUE))

\* The test of line 352, asking for usable prices as well.
HasRequiredKeysAndPrices(obj) ==
  /\ required_keys \subseteq DOMAIN obj
  /\ \A k \in {"entry", "tp1", "tp2", "tp3", "sl"} :
       obj[k].kind = "num" /\ obj[k].num >= 0

\* Line 352.
HasRequiredKeys(obj) == required_keys \subseteq DOMAIN obj

\* round(current_price * mul / 1000, 4), in units of 0.00001.  The product
\* is price * mul / 10000 units of 0.0001; a product that lies half way
\* between two of them goes where the binary fraction falls, up or down.
Round4(price, mul) ==
  LET a == price \div 10000
      x == (price % 10000) * mul
      q == a * mul + (x \div 10000)
      r == x % 10000
  IN  IF r < 5000 THEN {10 * q}
      ELSE IF r > 5000 THEN {10 * (q + 1)}
      ELSE {10 * q, 10 * (q + 1)}

\* Lines 355-364, 371-380 and 385-394: the payloads computed from the price.
Fallback(price) ==
  {[k \in required_keys |->
      CASE k = "signal" -> Str("NEUTRAL")
        [] k = "confidence" -> Str("N/A")
        [] k = "entry" -> Num(e)
        [] k = "tp1" -> Num(t1)
        [] k = "tp2" -> Num(t2)
        [] k = "tp3" -> Num(t3)
        [] k = "sl" -> Num(l)
        [] OTHER -> Str("1:1.0")] :
     e \in Round4(price, 1000), t1 \in Round4(price, 1001),
     t2 \in Round4(price, 1002), t3 \in Round4(price, 1003),
     l \in Round4(price, 999)}

\* A request has passed the checks of lines 253-281 and the model has
\* answered (line 321).
Received ==
  /\ current_price \in Prices
  /\ ai_full_response \in Texts
  /\ analysis_data = EmptyMap
  /\ ai_analysis_text = <<"Analysis not available.">>
  /\ stage = "received"

\* Lines 331-347 and 352 passed: the decoded object is the payload.
ParseComplete ==
  /\ stage = "received"
  /\ \E m \in {json_match(ai_full_response)} : \E d \in {Decode(m.body)} :
         /\ m.found /\ d.ok /\ HasRequiredKeys(d.value)
         /\ analysis_data' = d.value
         /\ ai_analysis_text' = AnalysisText(m)
  /\ stage' = "complete"
  /\ UNCHANGED <<current_price, ai_full_response, fetchVars, handlerVars>>

\* Lines 331-365: the object decoded lacks a required key.
ParseMissingKeys ==
  /\ stage = "received"
  /\ \E m \in {json_match(ai_full_response)} : \E d \in {Decode(m.body)} :
         /\ m.found /\ d.ok /\ ~HasRequiredKeys(d.value)
         /\ analysis_data' \in Fallback(current_price)
         /\ ai_analysis_text' = <<"noteIncomplete">> \o AnalysisText(m)
  /\ stage' = "missing_keys"
  /\ UNCHANGED <<current_price, ai_full_response, fetchVars, handlerVars>>

\* Lines 331-337 and 368-381: json.loads raised JSONDecodeError.
ParseUndecodable ==
  /\ stage = "received"
  /\ \E m \in {json_match(ai_full_response)} :
         m.found /\ ~Decode(m.body).ok
  /\ analysis_data' \in Fallback(current_price)
  /\ ai_analysis_text' = <<"noteUnreadable">> \o ai_full_response
  /\ stage' = "undecodable"
  /\ UNCHANGED <<current_price, ai_full_response, fetchVars, handlerVars>>

\* Lines 382-398: the pattern did not match.
ParseNoBlock ==
  /\ stage = "received"
  /\ ~json_match(ai_full_response).found
  /\ analysis_data' \in Fallback(current_price)
  /\ ai_analysis_text' =
       IF Strip(ai_full_response) = <<>>
         THEN <<"phNoAnalysis">>
         ELSE <<"noteNoStructure">> \o Strip(ai_full_response)
  /\ stage' = "no_block"
  /\ UNCHANGED <<current_price, ai_full_response, fetchVars, handlerVars>>

ParseNext ==
  \/ ParseComplete
  \/ ParseMissingKeys
  \/ ParseUndecodable
  \/ ParseNoBlock

ParseInit == FetchInit /\ Received /\ HandlersIdle

SpecParse == ParseInit /\ [][ParseNext]_vars

(***************************************************************************)
(* The claims about the parsing in generate_analysis.                      *)
(***************************************************************************)
\* The parsing has produced its payload and its explanation.
Parsed == stage \in {"complete", "missing_keys", "undecodable", "no_block"}

\* The parsing took one of the three paths that compute the payload from
\* the price.
Failed == stage \in {"missing_keys", "undecodable", "no_block"}

PriceKeys == {"entry", "tp1", "tp2", "tp3", "sl"}

\* C7: the parsing is total: for every response text and every price >= 0
\* the payload has all eight required keys, and its price fields entry,
\* tp1, tp2, tp3 and sl are numbers >= 0.
C7_ParseIsTotal ==
  Parsed =>
    /\ required_keys \subseteq DOMAIN analysis_data
    /\ \A k \in PriceKeys :
         analysis_data[k].kind = "num" /\ analysis_data[k].num >= 0

\* "```json\n" at i, followed by "{".
FenceAt(s, i) ==
  /\ i + 3 <= Len(s)
  /\ s[i] = "tick" /\ s[i + 1] = "json" /\ s[i + 2] = "nl"
  /\ s[i + 3] \in ObjTokens

\* A fenced block at i that holds one object with all eight keys.
CompleteBlockAt(s, i) ==
  /\ i + 5 <= Len(s)
  /\ FenceAt(s, i)
  /\ s[i + 3] \in {"objFull", "objOdd"}
  /\ s[i + 4] = "nl" /\ s[i + 5] = "tick"

\* C8 as stated: whenever the response contains a fenced block that decodes
\* to an object with all eight required keys, the payload is that object,
\* with no value replaced or computed from the price.
C8_CompleteBlockIsReturned ==
  Parsed /\ (\E i \in 1..Len(ai_full_response) :
               CompleteBlockAt(ai_full_response, i))
    => \E i \in 1..Len(ai_full_response) :
         /\ CompleteBlockAt(ai_full_response, i)
         /\ analysis_data = Decoded(ai_full_response[i + 3])

\* The first place where "```json\n" is followed by "{".
FirstFence(s, i) == FenceAt(s, i) /\ \A h \in 1..(i - 1) : ~FenceAt(s, h)

\* C8, amended: whenever the first "```json" fence that is followed by "{"
\* opens a block holding one object with all eight required keys, the
\* payload is that object exactly, whatever its values and whatever the
\* price.
C8_FirstBlockIsReturned ==
  Parsed =>
    \A i \in 1..Len(ai_full_response) :
      FirstFence(ai_full_response, i) /\ CompleteBlockAt(ai_full_response, i)
        => analysis_data = Decoded(ai_full_response[i + 3])

\* C8 witness: a block with unrounded, negative and non-numeric values,
\* with text around it, came back as it was sent while the price was 100.
C8_Witness ==
  /\ stage = "complete"
  /\ current_price = 10000000
  /\ Len(ai_full_response) > 7
  /\ ai_full_response[1] = "txt"
  /\ FirstFence(ai_full_response, 2)
  /\ analysis_data["entry"] = Num(-100000)
  /\ analysis_data["tp1"] = Str("n/a")

\* C9: in each of the three failure paths the payload is the same function
\* of the price, and for every price > 0 it has signal NEUTRAL, confidence
\* N/A, entry = the price (rounded to 4 decimal places) and
\* sl < entry < tp1 <= tp2 <= tp3.
C9_FallbackIsOrdered ==
  Failed /\ current_price > 0 =>
    /\ analysis_data \in Fallback(current_price)
    /\ analysis_data["signal"] = Str("NEUTRAL")
    /\ analysis_data["confidence"] = Str("N/A")
    /\ analysis_data["sl"].num < analysis_data["entry"].num
    /\ analysis_data["entry"].num < analysis_data["tp1"].num
    /\ analysis_data["tp1"].num <= analysis_data["tp2"].num
    /\ analysis_data["tp2"].num <= analysis_data["tp3"].num

\* The positions of a text that hold something other than white space,
\* and the text between the first and the last of them.
Inked(s) == {i \in 1..Len(s) : s[i] # "nl"}

Trimmed(s) ==
  IF Inked(s) = {} THEN <<>>
  ELSE SubSeq(s, CHOOSE a \in Inked(s) : \A b \in Inked(s) : a <= b,
                 CHOOSE a \in Inked(s) : \A b \in Inked(s) : a >= b)

Notes == {"noteIncomplete", "noteUnreadable", "noteNoStructure"}

Placeholders == {"phNoText", "phNoAnalysis"}

\* C10 as stated: in every failure path the explanation is the raw response
\* text (as it is, or without the white space at its ends) prefixed with a
\* note, or a placeholder when the raw text is empty.
C10_ExplanationIsRawText ==
  Failed =>
    IF Trimmed(ai_full_response) = <<>>
      THEN \E ph \in Placeholders :
             \/ ai_analysis_text = <<ph>>
             \/ \E n \in Notes : ai_analysis_text = <<n, ph>>
      ELSE \E n \in Notes :
             \/ ai_analysis_text = <<n>> \o ai_full_response
             \/ ai_analysis_text = <<n>> \o Trimmed(ai_full_response)

\* C10, amended: when the block is not decodable the explanation is a note
\* followed by the raw response; when no block is found it is a note
\* followed by the raw response without the white space at its ends, or a
\* placeholder with no note when nothing is left; when a required key is
\* missing it is a note followed by the text after the block, else the text
\* before the block, else a placeholder, with the headings removed, and
\* never the block itself.
C10_ExplanationByPath ==
  /\ stage = "undecodable" =>
       ai_analysis_text = <<"noteUnreadable">> \o ai_full_response
  /\ stage = "no_block" =>
       ai_analysis_text =
         IF Trimmed(ai_full_response) = <<>>
           THEN <<"phNoAnalysis">>
           ELSE <<"noteNoStructure">> \o Trimmed(ai_full_response)
  /\ stage = "missing_keys" =>
       \E i \in 1..Len(ai_full_response) :
         /\ FirstFence(ai_full_response, i)
         /\ LET before == Trimmed(SubSeq(ai_full_response, 1, i - 1))
                after == Trimmed(SubSeq(ai_full_response, i + 6,
                                        Len(ai_full_response)))
                chosen == IF after # <<>> THEN after
                          ELSE IF before # <<>> THEN before
                          ELSE <<"phNoText">>
            IN  ai_analysis_text =
                  <<"noteIncomplete">> \o Trimmed(SubHeader(chosen, TRUE))

\* C10 witness: a block without "sl" was followed by the heading and prose;
\* the explanation is the note and the prose, without the block and the
\* heading.
C10_Witness ==
  /\ stage = "missing_keys"
  /\ \E i \in 1..Len(ai_full_response) : ai_full_response[i] = "hdr"
  /\ \E i \in 1..Len(ai_full_response) : ai_full_response[i] = "objPartial"
  /\ ai_analysis_text = <<"noteIncomplete", "txt">>

(***************************************************************************)
(* The request handlers chat_with_gemini (lines 208-242),                  *)
(* generate_analysis (lines 251-408) and log_trade (lines 411-443), and    *)
(* the trades table they write.  Each handler is one step: the insert of   *)
(* log_trade is one SQLite transaction.                                    *)
(***************************************************************************)
\* Requests served in a run.
MaxRequests == 3

\* The JSON body of a request: the value null, the object {} or an object
\* with members.
EmptyBodies == {"null", "empty"}

\* A member that is a price: a number, a string that float() reads, a
\* string that it does not read, or a value that is no number or string.
PriceKinds == {"number", "numstr", "badstr", "other"}

\* float(x), lines 279 and 425-427.
FloatOf(kind) ==
  CASE kind \in {"number", "numstr"} -> "ok"
    [] kind = "badstr" -> "ValueError"
    [] OTHER -> "TypeError"

\* The parameters that line 266 asks for.
analysis_params ==
  {"pair", "timeframes", "indicators", "trade_type", "balance_range",
   "leverage", "current_price_for_pair"}

\* Line 417.
required_fields ==
  <<"pair", "entry_price", "exit_price", "profit_loss", "trade_type">>

\* Lines 418-420: the first required field that the body lacks.
FirstMissing(missing) ==
  LET i == CHOOSE j \in DOMAIN required_fields :
             /\ required_fields[j] \in missing
             /\ \A h \in 1..(j - 1) : required_fields[h] \notin missing
  IN  required_fields[i]

Reply(route, status, named, valid) ==
  [route |-> route, status |-> status, named |-> named, valid |-> valid]

\* An insert that takes the place of the newest row.
InsertOrReplace(rows, row) ==
  IF rows = <<>> THEN <<row>> ELSE [rows EXCEPT ![Len(rows)] = row]

\* Lines 432-435: INSERT INTO trades.
Insert(rows, row) == Append(rows, row)

\* Start-up: init_db (lines 30-49) finds the table of an earlier run or
\* makes an empty one, and configure_gemini (lines 56-99) makes the model
\* or leaves it None.
HandlersInit ==
  /\ gemini_model \in BOOLEAN
  /\ \E n \in 0..1 :
       /\ trades = [i \in 1..n |-> [id |-> i, req |-> 0]]
       /\ sqlite_sequence = n
  /\ request_no = 0
  /\ response = [route |-> "none", status |-> 0, named |-> {}, valid |-> TRUE]
  /\ created = <<>>

\* Lines 208-242, POST /chat.  ai_ok: chat.send_message returned.
Chat ==
  /\ request_no < MaxRequests
  /\ \E body \in {"null", "object"}, message \in {"absent", "empty", "text"},
        ai_ok \in BOOLEAN :
       LET valid == body = "object" /\ message = "text"
       IN  response' =
             IF body = "null" THEN Reply("chat", 500, {}, valid)
             ELSE IF message # "text" THEN Reply("chat", 400, {"message"}, valid)
             ELSE IF ~gemini_model THEN Reply("chat", 500, {}, valid)
             ELSE IF ai_ok THEN Reply("chat", 200, {}, valid)
             ELSE Reply("chat", 500, {}, valid)
  /\ request_no' = request_no + 1
  /\ UNCHANGED <<gemini_model, trades, sqlite_sequence, created, fetchVars,
                 parseVars>>

\* Lines 251-408, POST /generate_analysis.  missing: the parameters that
\* are absent or empty; ai_ok: convo.send_message returned.
GenerateAnalysis ==
  /\ request_no < MaxRequests
  /\ \E body \in {"null", "object"}, missing \in SUBSET analysis_params,
        price \in PriceKinds, ai_ok \in BOOLEAN :
       LET valid == body = "object" /\ missing = {} /\ FloatOf(price) = "ok"
       IN  response' =
             IF ~gemini_model THEN Reply("generate_analysis", 500, {}, valid)
             ELSE IF body = "null" THEN Reply("generate_analysis", 500, {}, valid)
             ELSE IF missing # {}
               THEN Reply("generate_analysis", 400, missing, valid)
             ELSE IF FloatOf(price) = "ValueError"
               THEN Reply("generate_analysis", 400, {}, valid)
             ELSE IF FloatOf(price) = "TypeError"
               THEN Reply("generate_analysis", 500, {}, valid)
             ELSE IF ai_ok THEN Reply("generate_analysis", 200, {}, valid)
             ELSE Reply("generate_analysis", 500, {}, valid)
  /\ request_no' = request_no + 1
  /\ UNCHANGED <<gemini_model, trades, sqlite_sequence, created, fetchVars,
                 parseVars>>

\* Lines 411-443, POST /log_trade.  db_ok: the insert and the commit went
\* through.
LogTrade ==
  /\ request_no < MaxRequests
  /\ request_no' = request_no + 1
  /\ \E body \in EmptyBodies \cup {"object"},
        missing \in SUBSET {required_fields[i] : i \in DOMAIN required_fields},
        price \in PriceKinds, db_ok \in BOOLEAN :
       LET valid == body = "object" /\ missing = {} /\ FloatOf(price) = "ok"
           stored == body = "object" /\ missing = {} /\ FloatOf(price) = "ok"
                       /\ db_ok
       IN  /\ response' =
                IF body \in EmptyBodies THEN Reply("log_trade", 400, {}, valid)
                ELSE IF missing # {}
                  THEN Reply("log_trade", 400, {FirstMissing(missing)}, valid)
                ELSE IF FloatOf(price) = "ValueError"
                  THEN Reply("log_trade", 400, {}, valid)
                ELSE IF FloatOf(price) = "TypeError"
                  THEN Reply("log_trade", 500, {}, valid)
                ELSE IF db_ok THEN Reply("log_trade", 201, {}, valid)
                ELSE Reply("log_trade", 500, {}, valid)
           /\ IF stored
                THEN /\ trades' = Insert(trades, [id |-> sqlite_sequence + 1,
                                                   req |-> request_no'])
                     /\ sqlite_sequence' = sqlite_sequence + 1
                     /\ created' = Append(created, request_no')
                ELSE UNCHANGED <<trades, sqlite_sequence, created>>
  /\ UNCHANGED <<gemini_model, fetchVars, parseVars>>

\* Lines 446-462, GET /get_trades: the rows, or 500 on sqlite3.Error.
GetTrades ==
  /\ request_no < MaxRequests
  /\ request_no' = request_no + 1
  /\ \E db_ok \in BOOLEAN :
       response' = Reply("get_trades", IF db_ok THEN 200 ELSE 500, {}, TRUE)
  /\ UNCHANGED <<gemini_model, trades, sqlite_sequence, created, fetchVars,
                 parseVars>>

HandlersNext ==
  \/ Chat
  \/ GenerateAnalysis
  \/ LogTrade
  \/ GetTrades

ServeInit == FetchInit /\ ParseIdle /\ HandlersInit

SpecHandlers == ServeInit /\ [][HandlersNext]_vars

(***************************************************************************)
(* The claims about the request handlers.                                  *)
(***************************************************************************)
\* C11: a request to /chat, /generate_analysis or /log_trade with missing
\* or invalid caller input is always answered 400, whether or not the AI
\* model was initialised; 500 is answered only when the input was valid.
C11_BadInputGets400 ==
  response.route \in {"chat", "generate_analysis", "log_trade"}
    => /\ ~response.valid => response.status = 400
       /\ response.status = 500 => response.valid

(***************************************************************************)
(* Further claims about get_market_prices_coingecko.                       *)
(***************************************************************************)
\* The cache entry is younger than CACHE_DURATION by the clock reading of
\* thread t.
FreshFor(t) ==
  /\ market_prices_cache.has # {}
  /\ current_time[t] - CacheTimestamp(market_prices_cache) < CACHE_DURATION

\* C12: cached data is returned without an upstream request only while
\* now - timestamp < CACHE_DURATION, and a call that is not served by such
\* an entry issues an upstream request: a call about to return the cache
\* holds a fresh entry, and a call that has ended has returned the cache or
\* has issued a request.
C12_ExpiredEntryIsRefetched ==
  \A t \in Threads :
    /\ pc[t] = "cache_read" => FreshFor(t)
    /\ pc[t] \in {"done", "raised"} =>
         \/ hist[t].path \in {"cache", "fetched", "fallback"}
         \/ exc[t] = "TypeError"

(***************************************************************************)
(* The claim about the trades table.                                       *)
(***************************************************************************)
\* The rows that requests of this run have added, oldest first.
AddedRows == SelectSeq(trades, LAMBDA row : row.req # 0)

\* C13: the trades table holds exactly one record per /log_trade request
\* answered 201, in the order of the requests and with distinct, increasing
\* ids; a request answered 400 or 500 adds no record, and no request
\* changes or removes a record that exists.
C13_OneRecordPerCreated ==
  /\ [](/\ Len(AddedRows) = Len(created)
        /\ \A i \in DOMAIN created : AddedRows[i].req = created[i]
        /\ \A i, j \in DOMAIN trades : i < j => trades[i].id < trades[j].id)
  /\ [][/\ Len(trades') >= Len(trades)
        /\ SubSeq(trades', 1, Len(trades)) = trades
        /\ Len(trades') =
             IF response'.route = "log_trade" /\ response'.status = 201
               THEN Len(trades) + 1 ELSE Len(trades)]_vars

\* C13 witness: two requests were answered 201 and their two records are in
\* the table after the record of an earlier run; a third request, answered
\* 500, has added nothing.
C13_Witness ==
  /\ created = <<1, 2>>
  /\ response.route = "log_trade" /\ response.status = 500
  /\ Len(trades) = 3
  /\ trades[1].req = 0 /\ trades[2].req = 1 /\ trades[3].req = 2

(***************************************************************************)
(* The claim about the rate window.                                        *)
(***************************************************************************)
\* How often the instant x occurs in the sequence q.
CountOf(q, x) == Cardinality({j \in DOMAIN q : q[j] = x})

\* C14: every upstream request, whether it succeeds or fails, adds exactly
\* one timestamp to api_call_timestamps, so for every instant of the last
\* ONE_MINUTE the window holds as many timestamps as requests were issued.
C14_EveryRequestIsCounted ==
  \A x \in Instants :
    x > now - ONE_MINUTE =>
      CountOf(api_call_timestamps, x) = CountOf(reqLog, x)

====
